---- MODULE Spec2Model ----
(***************************************************************************)
(* A model of the cod terminal-drawing crate: the global colour stacks of  *)
(* color.rs (single-threaded and with two threads), the line iterator of   *)
(* line.rs, and the orth_line / line drawing functions of lib.rs.          *)
(***************************************************************************)
EXTENDS Integers, Sequences, FiniteSets, TLC

(***************************************************************************)
(* Bounds of the exploration.                                              *)
(***************************************************************************)
\* Most colours held by the two stacks together (pushes are disabled beyond it).
MaxDepth == 2
\* Deepest nesting of color::with::* calls explored.
MaxScopes == 1
\* Operations each thread performs in the two-thread specification.
MaxThreadOps == 2
\* Width in bits given to u32 and i32.  TLC's integers are 32-bit, so 2^32 is
\* out of its reach: the coordinates are unsigned integers of CoordBits bits and
\* the i32 values of lib.rs signed ones of the same width; i64 never overflows.
CoordBits == 4
\* Largest small coordinate given to the line iterator and the drawing
\* functions, besides the two largest coordinates of the type.
MaxCoord == 3
\* Calls of Iter::next observed after the first None.
MaxNones == 2
\* Longest string given to text.
MaxTextLen == 3
\* Deepest nesting of style::with::* calls explored.
MaxStyleScopes == 2
\* Most RawModeGuard values created in one run.
MaxGuards == 4

\* Sample u8 arguments of color::fg / color::bg.
IndexedArgs == {4}
\* Sample (r, g, b) arguments of color::tc_fg / color::tc_bg.
RgbArgs == {<<10, 20, 30>>}

(***************************************************************************)
(* State.                                                                  *)
(***************************************************************************)
VARIABLES
    fgStack,    \* FG_COLOR_STACK: the Vec<Color> behind the mutex
    bgStack,    \* BG_COLOR_STACK
    lastEsc,    \* per channel, the last escape sequence written for it ("" = none yet)
    emitted,    \* the escape sequences written by the last operation, in order
    scopes,     \* the color::with::* calls whose action is running, innermost last
    last,       \* the last completed operation
    pc,         \* per thread, where it stands inside a push or a pop
    pending,    \* per thread, the colour its running push has written and not yet stored
    fgLock,     \* the holder of FG_COLOR_STACK's mutex (0 = free)
    opsLeft,    \* per thread, the operations it has still to start
    iterArgs,   \* the (x1, y1, x2, y2) given to line::Iter::new
    it,         \* the line::Iter struct
    pts,        \* the items Iter::next has returned as Some, in order
    nones,      \* how many times Iter::next has returned None
    call,       \* the drawing function called last, with its arguments
    drawn,      \* the text that call wrote, one pixel per element
    ret,        \* what that call returned
    styles,     \* the style attributes the terminal has on
    styleScopes,\* the style::with::* calls whose action is running, innermost last
    styleLast,  \* the last completed style operation
    rawMode,    \* whether the terminal is in raw mode
    guards      \* the RawModeGuard values created, in order: origin and whether alive

colorVars == <<bgStack, scopes, last>>
threadVars == <<pc, pending, fgLock, opsLeft>>

iterVars == <<iterArgs, it, pts, nones>>
drawVars == <<call, drawn, ret>>
styleVars == <<styles, styleScopes, styleLast>>
rawVars == <<rawMode, guards>>

vars == <<fgStack, bgStack, lastEsc, emitted, scopes, last, pc, pending, fgLock, opsLeft,
          iterArgs, it, pts, nones, call, drawn, ret, styles, styleScopes, styleLast,
          rawMode, guards>>

(***************************************************************************)
(* Sequence helpers.                                                       *)
(***************************************************************************)
Front(s) == SubSeq(s, 1, Len(s) - 1)
Last(s) == s[Len(s)]

(***************************************************************************)
(* lib.rs: escape; color.rs: the raw emitters generated by do_color!.      *)
(* An escape sequence is the text written to stdout, ESC standing for the  *)
(* byte 27.                                                                *)
(***************************************************************************)
escape(code) == "ESC[" \o code

raw_fg(color) == escape("38;5;" \o ToString(color) \o "m")
raw_bg(color) == escape("48;5;" \o ToString(color) \o "m")
raw_tc_fg(r, g, b) ==
    escape("38;2;" \o ToString(r) \o ";" \o ToString(g) \o ";" \o ToString(b) \o "m")
raw_tc_bg(r, g, b) ==
    escape("48;2;" \o ToString(r) \o ";" \o ToString(g) \o ";" \o ToString(b) \o "m")

(***************************************************************************)
(* color.rs: enum Color and its fg / bg methods.                           *)
(***************************************************************************)
ColorC(x) == [tag |-> "C", x |-> x]
ColorRgb(r, g, b) == [tag |-> "Rgb", r |-> r, g |-> g, b |-> b]

Color_fg(self) ==
    IF self.tag = "C" THEN raw_fg(self.x) ELSE raw_tc_fg(self.r, self.g, self.b)
Color_bg(self) ==
    IF self.tag = "C" THEN raw_bg(self.x) ELSE raw_tc_bg(self.r, self.g, self.b)

(***************************************************************************)
(* The two halves of a push and of a pop.  A world w is the record         *)
(* [fg, bg, out]: both stacks and the text written so far by the running   *)
(* operation.                                                              *)
(***************************************************************************)
Emit(w, esc) == [w EXCEPT !.out = Append(@, esc)]

\* FG_COLOR_STACK.get_or_init(init_stack).lock().unwrap().push(c)
fg_locked_push(w, c) == [w EXCEPT !.fg = Append(@, c)]
bg_locked_push(w, c) == [w EXCEPT !.bg = Append(@, c)]

\* Mutant: a pop that reads the top and leaves it on the stack.
VecPop_keeps_top(s) == s

\* Vec::pop: removes the last element, nothing on an empty Vec.
VecPop(s) == IF s = <<>> THEN <<>> ELSE Front(s)

\* What pop writes for the stack s left after stack.pop().
fg_pop_escape(s) == IF s # <<>> THEN Color_fg(Last(s)) ELSE escape("39m")
bg_pop_escape(s) == IF s # <<>> THEN Color_bg(Last(s)) ELSE escape("49m")

stack_fg_push_fg(w, c) == fg_locked_push(Emit(w, raw_fg(c)), ColorC(c))
stack_fg_push_tc_fg(w, r, g, b) ==
    fg_locked_push(Emit(w, raw_tc_fg(r, g, b)), ColorRgb(r, g, b))
stack_bg_push_bg(w, c) == bg_locked_push(Emit(w, raw_bg(c)), ColorC(c))
stack_bg_push_tc_bg(w, r, g, b) ==
    bg_locked_push(Emit(w, raw_tc_bg(r, g, b)), ColorRgb(r, g, b))

\* Mutant: the pop of a build without the stack, which always writes the reset.
stack_fg_pop_always_resets(w) ==
    LET s == VecPop(w.fg) IN Emit([w EXCEPT !.fg = s], escape("39m"))

stack_fg_pop(w) ==
    LET s == VecPop(w.fg) IN Emit([w EXCEPT !.fg = s], fg_pop_escape(s))

\* Mutant: a pop that returns early, writing nothing, when the stack is empty.
stack_bg_pop_silent_on_empty(w) ==
    IF w.bg = <<>> THEN w
    ELSE LET s == VecPop(w.bg) IN Emit([w EXCEPT !.bg = s], bg_pop_escape(s))

stack_bg_pop(w) ==
    LET s == VecPop(w.bg) IN Emit([w EXCEPT !.bg = s], bg_pop_escape(s))

(***************************************************************************)
(* color.rs: the public functions (feature color_stack enabled, as by      *)
(* default).                                                               *)
(***************************************************************************)
color_fg(w, c) == stack_fg_push_fg(w, c)
color_bg(w, c) == stack_bg_push_bg(w, c)
color_tc_fg(w, r, g, b) == stack_fg_push_tc_fg(w, r, g, b)
color_tc_bg(w, r, g, b) == stack_bg_push_tc_bg(w, r, g, b)

de_fg(w) == stack_fg_pop(w)
de_bg(w) == stack_bg_pop(w)
de_all(w) == de_bg(de_fg(w))

\* color::with::$color up to the call of f: super::$color(args), then
\* stack::$de::push::$color(args).
with_fg_enter(w, c) == stack_fg_push_fg(color_fg(w, c), c)
with_bg_enter(w, c) == stack_bg_push_bg(color_bg(w, c), c)
with_tc_fg_enter(w, r, g, b) == stack_fg_push_tc_fg(color_tc_fg(w, r, g, b), r, g, b)
with_tc_bg_enter(w, r, g, b) == stack_bg_push_tc_bg(color_tc_bg(w, r, g, b), r, g, b)

\* color::with::$color after f has returned: stack::$de::pop().
with_exit(w, chan) == IF chan = "fg" THEN stack_fg_pop(w) ELSE stack_bg_pop(w)

(***************************************************************************)
(* The terminal's reading of the colour sequences (SGR 38/39 address the   *)
(* foreground, 48/49 the background), used to say what is displayed.       *)
(***************************************************************************)
Default == [tag |-> "Default"]

SampleColors ==
    {ColorC(x) : x \in IndexedArgs} \cup {ColorRgb(t[1], t[2], t[3]) : t \in RgbArgs}

SgrSet(chan, col) ==
    LET lead == IF chan = "fg" THEN "38" ELSE "48" IN
    IF col.tag = "C"
    THEN "ESC[" \o lead \o ";5;" \o ToString(col.x) \o "m"
    ELSE "ESC[" \o lead \o ";2;" \o ToString(col.r) \o ";" \o ToString(col.g)
            \o ";" \o ToString(col.b) \o "m"
SgrReset(chan) == IF chan = "fg" THEN "ESC[39m" ELSE "ESC[49m"

ChannelEscapes(chan) == {SgrSet(chan, c) : c \in SampleColors} \cup {SgrReset(chan)}

\* The colour a sequence of the channel denotes.
Denotes(chan, esc) ==
    IF esc = SgrReset(chan) THEN Default
    ELSE IF \E c \in SampleColors : SgrSet(chan, c) = esc
         THEN CHOOSE c \in SampleColors : SgrSet(chan, c) = esc
         ELSE [tag |-> "Unknown"]

\* The last sequence of the channel in out, or old when out holds none.
LastFor(chan, out, old) ==
    LET idx == {i \in 1..Len(out) : out[i] \in ChannelEscapes(chan)} IN
    IF idx = {} THEN old ELSE out[CHOOSE i \in idx : \A j \in idx : j <= i]

TopOrDefault(s) == IF s = <<>> THEN Default ELSE Last(s)

(***************************************************************************)
(* Single-threaded use of the colour functions.                            *)
(***************************************************************************)
World == [fg |-> fgStack, bg |-> bgStack, out |-> <<>>]

Stacks == [fg |-> fgStack, bg |-> bgStack]

Depth == Len(fgStack) + Len(bgStack)

\* The record kept of an operation on chan: the stack it found (pre); for the
\* end of a with call, the channel's stack when the call was made (entry) and
\* whether its action left the channel's stack as it found it (bal); for a pop
\* that directly follows a push on the same channel (afterPush), the stack that
\* push found (entry).
Record(op, chan, entry, bal) ==
    [op |-> op, chan |-> chan,
     pre |-> IF chan = "all" THEN <<fgStack, bgStack>> ELSE Stacks[chan],
     entry |-> entry, bal |-> bal, afterPush |-> FALSE]

PopRecord(chan) ==
    IF last.op = "push" /\ last.chan = chan
    THEN [Record("pop", chan, last.pre, TRUE) EXCEPT !.afterPush = TRUE]
    ELSE Record("pop", chan, <<>>, TRUE)

NoOp == [op |-> "none", chan |-> "none", pre |-> <<>>,
         entry |-> <<>>, bal |-> TRUE, afterPush |-> FALSE]

\* The state after an operation that turned World into w.
Commit(w, r) ==
    /\ fgStack' = w.fg
    /\ bgStack' = w.bg
    /\ emitted' = w.out
    /\ lastEsc' = [fg |-> LastFor("fg", w.out, lastEsc.fg),
                   bg |-> LastFor("bg", w.out, lastEsc.bg)]
    /\ last' = r
    /\ UNCHANGED <<threadVars, iterVars, drawVars, styleVars, rawVars>>

Threads == {1, 2}

ColorInit ==
    /\ fgStack = <<>>
    /\ bgStack = <<>>
    /\ lastEsc = [fg |-> "", bg |-> ""]
    /\ emitted = <<>>
    /\ scopes = <<>>
    /\ last = NoOp

ThreadInit ==
    /\ pc = [t \in Threads |-> "idle"]
    /\ pending = [t \in Threads |-> Default]
    /\ fgLock = 0
    /\ opsLeft = [t \in Threads |-> MaxThreadOps]

IterIdle ==
    /\ iterArgs = <<>>
    /\ it = <<>>
    /\ pts = <<>>
    /\ nones = 0

DrawIdle ==
    /\ call = <<>>
    /\ drawn = <<>>
    /\ ret = "none"

NoStyleOp == [op |-> "none", attr |-> "none", weight |-> {}]

StyleIdle ==
    /\ styles = {}
    /\ styleScopes = <<>>
    /\ styleLast = NoStyleOp

RawIdle ==
    /\ rawMode = FALSE
    /\ guards = <<>>

Init == ColorInit /\ ThreadInit /\ IterIdle /\ DrawIdle /\ StyleIdle /\ RawIdle

ColorFg ==
    \E c \in IndexedArgs :
        /\ Depth < MaxDepth
        /\ Commit(color_fg(World, c), Record("push", "fg", <<>>, TRUE))
        /\ UNCHANGED scopes

ColorTcFg ==
    \E t \in RgbArgs :
        /\ Depth < MaxDepth
        /\ Commit(color_tc_fg(World, t[1], t[2], t[3]), Record("push", "fg", <<>>, TRUE))
        /\ UNCHANGED scopes

ColorBg ==
    \E c \in IndexedArgs :
        /\ Depth < MaxDepth
        /\ Commit(color_bg(World, c), Record("push", "bg", <<>>, TRUE))
        /\ UNCHANGED scopes

ColorTcBg ==
    \E t \in RgbArgs :
        /\ Depth < MaxDepth
        /\ Commit(color_tc_bg(World, t[1], t[2], t[3]), Record("push", "bg", <<>>, TRUE))
        /\ UNCHANGED scopes

DeFg ==
    /\ Commit(de_fg(World), PopRecord("fg"))
    /\ UNCHANGED scopes

DeBg ==
    /\ Commit(de_bg(World), PopRecord("bg"))
    /\ UNCHANGED scopes

DeAll ==
    /\ Commit(de_all(World), Record("pop", "all", <<>>, TRUE))
    /\ UNCHANGED scopes

\* color::with::$color is called and reaches (f)().
WithCall(chan, w) ==
    /\ Len(scopes) < MaxScopes
    /\ Depth + 2 <= MaxDepth
    /\ Commit(w, Record("with_call", chan, <<>>, TRUE))
    /\ scopes' = Append(scopes, [chan |-> chan, entry |-> Stacks[chan],
                                 mid |-> w[chan]])

WithFg == \E c \in IndexedArgs : WithCall("fg", with_fg_enter(World, c))
WithBg == \E c \in IndexedArgs : WithCall("bg", with_bg_enter(World, c))
WithTcFg == \E t \in RgbArgs : WithCall("fg", with_tc_fg_enter(World, t[1], t[2], t[3]))
WithTcBg == \E t \in RgbArgs : WithCall("bg", with_tc_bg_enter(World, t[1], t[2], t[3]))

\* The action of the innermost with call returns; the combinator pops.
WithReturn ==
    /\ scopes # <<>>
    /\ LET sc == Last(scopes) IN
        Commit(with_exit(World, sc.chan),
               Record("with_return", sc.chan, sc.entry, Stacks[sc.chan] = sc.mid))
    /\ scopes' = Front(scopes)

\* The action of the innermost with call panics: the unwinding leaves the
\* combinator, which holds no destructor, without running the pop.
WithUnwind ==
    /\ scopes # <<>>
    /\ LET sc == Last(scopes) IN
        Commit(World, Record("with_unwind", sc.chan, sc.entry, Stacks[sc.chan] = sc.mid))
    /\ scopes' = Front(scopes)

(***************************************************************************)
(* style.rs: the functions write one SGR sequence each and keep no state.  *)
(***************************************************************************)
Attrs == {"bold", "faint", "italic", "underline", "strike"}

\* do_style!(bold: 1, faint: 2, italic: 3, underline: 4, strike: 9)
StyleCode(style) ==
    CASE style = "bold" -> "1"
      [] style = "faint" -> "2"
      [] style = "italic" -> "3"
      [] style = "underline" -> "4"
      [] style = "strike" -> "9"

\* style::$style()
do_style(w, style) == Emit(w, escape(StyleCode(style) \o "m"))

\* de_style!(italic: 23, underline: 24, strike: 29)
DeStyles == <<"italic", "underline", "strike">>

DeCode(style) ==
    CASE style = "italic" -> "23"
      [] style = "underline" -> "24"
      [] style = "strike" -> "29"

\* style::de::$style()
de_style(w, style) == Emit(w, escape(DeCode(style) \o "m"))

\* style::de::all(): $($style();)+ over the styles of de_style!
style_de_all(w) == de_style(de_style(de_style(w, DeStyles[1]), DeStyles[2]), DeStyles[3])

\* Mutant: a weight reset that writes nothing.
de_weight_silent(w) == w

\* style::de::weight()
de_weight(w) == Emit(w, escape("22m"))

\* style::with::$style up to the call of the closure.
with_style_enter(w, style) == do_style(w, style)

\* Mutant: an exit that switches the attribute on again.
with_style_exit_reenables(w, style) == do_style(w, style)

\* style::with::$style after the closure: super::de::$de(), with
\* with_style![bold: weight, faint: weight, italic: italic, ..].
with_style_exit(w, style) ==
    IF style \in {"bold", "faint"} THEN de_weight(w) ELSE de_style(w, style)

\* guard::Reset::drop
Reset_drop(w) == de_all(style_de_all(w))

(***************************************************************************)
(* The terminal's reading of the style sequences: SGR 1, 2, 3, 4, 9 switch *)
(* an attribute on, 22 switches bold and faint off, 23, 24, 29 one each.   *)
(***************************************************************************)
Weight == {"bold", "faint"}

SgrStyle(on, esc) ==
    CASE esc = "ESC[1m" -> on \cup {"bold"}
      [] esc = "ESC[2m" -> on \cup {"faint"}
      [] esc = "ESC[3m" -> on \cup {"italic"}
      [] esc = "ESC[4m" -> on \cup {"underline"}
      [] esc = "ESC[9m" -> on \cup {"strike"}
      [] esc = "ESC[22m" -> on \ Weight
      [] esc = "ESC[23m" -> on \ {"italic"}
      [] esc = "ESC[24m" -> on \ {"underline"}
      [] esc = "ESC[29m" -> on \ {"strike"}
      [] OTHER -> on

RECURSIVE StyleAfter(_, _)
StyleAfter(on, out) ==
    IF out = <<>> THEN on ELSE StyleAfter(SgrStyle(on, Head(out)), Tail(out))

\* The record kept of a style operation: the function, its attribute and
\* which of bold and faint were on when it was called.
StyleRecord(op, style) == [op |-> op, attr |-> style, weight |-> styles \cap Weight]

\* The state after a style operation that wrote w.out.
StyleCommit(w, op, style) ==
    /\ emitted' = w.out
    /\ styles' = StyleAfter(styles, w.out)
    /\ styleLast' = StyleRecord(op, style)
    /\ UNCHANGED <<fgStack, lastEsc, colorVars, threadVars, iterVars, drawVars, rawVars>>

StyleOn ==
    \E style \in Attrs :
        /\ StyleCommit(do_style(World, style), "on", style)
        /\ UNCHANGED styleScopes

StyleDe ==
    \E i \in 1..Len(DeStyles) :
        /\ StyleCommit(de_style(World, DeStyles[i]), "de", DeStyles[i])
        /\ UNCHANGED styleScopes

StyleDeWeight ==
    /\ StyleCommit(de_weight(World), "de", "weight")
    /\ UNCHANGED styleScopes

StyleDeAll ==
    /\ StyleCommit(style_de_all(World), "de", "all")
    /\ UNCHANGED styleScopes

\* style::with::$style is called and reaches (f)().
StyleWithCall ==
    \E style \in Attrs :
        /\ Len(styleScopes) < MaxStyleScopes
        /\ StyleCommit(with_style_enter(World, style), "with_call", style)
        /\ styleScopes' = Append(styleScopes, style)

\* The action of the innermost style::with call returns.
StyleWithReturn ==
    /\ styleScopes # <<>>
    /\ StyleCommit(with_style_exit(World, Last(styleScopes)), "with_return", Last(styleScopes))
    /\ styleScopes' = Front(styleScopes)

\* The action of the innermost style::with call panics: nothing is written.
StyleWithUnwind ==
    /\ styleScopes # <<>>
    /\ StyleCommit(World, "with_unwind", Last(styleScopes))
    /\ styleScopes' = Front(styleScopes)

\* A guard::Reset is dropped.
ResetDrop ==
    LET w == Reset_drop(World) IN
    /\ fgStack' = w.fg
    /\ bgStack' = w.bg
    /\ emitted' = w.out
    /\ lastEsc' = [fg |-> LastFor("fg", w.out, lastEsc.fg),
                   bg |-> LastFor("bg", w.out, lastEsc.bg)]
    /\ last' = Record("reset_drop", "all", <<>>, TRUE)
    /\ styles' = StyleAfter(styles, w.out)
    /\ styleLast' = StyleRecord("reset_drop", "all")
    /\ UNCHANGED <<scopes, styleScopes, threadVars, iterVars, drawVars, rawVars>>

NextStyle ==
    \/ StyleOn \/ StyleDe \/ StyleDeWeight \/ StyleDeAll
    \/ StyleWithCall \/ StyleWithReturn \/ StyleWithUnwind
    \/ ResetDrop

SpecStyle == Init /\ [][NextStyle]_vars

Next ==
    \/ ColorFg \/ ColorTcFg \/ ColorBg \/ ColorTcBg
    \/ DeFg \/ DeBg \/ DeAll
    \/ WithFg \/ WithBg \/ WithTcFg \/ WithTcBg
    \/ WithReturn \/ WithUnwind
    \/ ResetDrop

Spec == Init /\ [][Next]_vars

(***************************************************************************)
(* Two threads using the foreground stack.  A push writes its sequence     *)
(* (print! holds the stdout lock for that one write) and only then takes   *)
(* the stack's mutex to store the colour; a pop takes the mutex, removes   *)
(* the top and writes while it still holds the guard.                      *)
(***************************************************************************)
ThreadFrame == UNCHANGED <<colorVars, iterVars, drawVars, styleVars, rawVars>>

WriteFg(esc) ==
    /\ emitted' = <<esc>>
    /\ lastEsc' = [lastEsc EXCEPT !.fg = LastFor("fg", <<esc>>, @)]

\* push::fg(c) / push::tc_fg(r, g, b), first statement: crate::color::raw::...
ThreadPushWrite(t) ==
    /\ pc[t] = "idle"
    /\ opsLeft[t] > 0
    /\ Len(fgStack) + Cardinality({u \in Threads : pc[u] = "push"}) < MaxDepth
    /\ \E col \in SampleColors :
        /\ WriteFg(Color_fg(col))
        /\ pending' = [pending EXCEPT ![t] = col]
    /\ pc' = [pc EXCEPT ![t] = "push"]
    /\ opsLeft' = [opsLeft EXCEPT ![t] = @ - 1]
    /\ UNCHANGED <<fgStack, fgLock>>
    /\ ThreadFrame

\* push, second statement: FG_COLOR_STACK...lock().unwrap().push(..)
ThreadPushStore(t) ==
    /\ pc[t] = "push"
    /\ fgLock = 0
    /\ fgStack' = fg_locked_push(World, pending[t]).fg
    /\ pc' = [pc EXCEPT ![t] = "idle"]
    /\ pending' = [pending EXCEPT ![t] = Default]
    /\ UNCHANGED <<lastEsc, emitted, fgLock, opsLeft>>
    /\ ThreadFrame

\* pop: lock().unwrap(), stack.pop()
ThreadPopLock(t) ==
    /\ pc[t] = "idle"
    /\ opsLeft[t] > 0
    /\ fgLock = 0
    /\ fgLock' = t
    /\ fgStack' = VecPop(fgStack)
    /\ pc' = [pc EXCEPT ![t] = "pop"]
    /\ opsLeft' = [opsLeft EXCEPT ![t] = @ - 1]
    /\ UNCHANGED <<lastEsc, emitted, pending>>
    /\ ThreadFrame

\* pop: the write chosen by stack.last(), then the guard is dropped
ThreadPopWrite(t) ==
    /\ pc[t] = "pop"
    /\ fgLock = t
    /\ WriteFg(fg_pop_escape(fgStack))
    /\ fgLock' = 0
    /\ pc' = [pc EXCEPT ![t] = "idle"]
    /\ UNCHANGED <<fgStack, pending, opsLeft>>
    /\ ThreadFrame

NextThreads ==
    \E t \in Threads :
        \/ ThreadPushWrite(t)
        \/ ThreadPushStore(t)
        \/ ThreadPopLock(t)
        \/ ThreadPopWrite(t)

SpecThreads == Init /\ [][NextThreads]_vars

(***************************************************************************)
(* Properties of the colour stacks.                                        *)
(***************************************************************************)
Channels == {"fg", "bg"}

\* The colour the terminal shows on a channel: what the last sequence written
\* for it denotes.
Displayed(chan) == Denotes(chan, lastEsc[chan])

RestoreEscape(chan, s) == IF s = <<>> THEN SgrReset(chan) ELSE SgrSet(chan, Last(s))

\* C1: in single-threaded use, once a channel has been written to or holds a
\* colour, the last sequence written for it denotes the top of its stack, and
\* is the channel's reset (39m / 49m) when the stack is empty.
C1_LastEscapeIsStackTop ==
    \A ch \in Channels :
        (lastEsc[ch] # "" \/ Stacks[ch] # <<>>) =>
            /\ Displayed(ch) = TopOrDefault(Stacks[ch])
            /\ Stacks[ch] = <<>> => lastEsc[ch] = SgrReset(ch)

C1_Witness ==
    /\ last.op = "with_return"
    /\ fgStack # <<>>
    /\ bgStack = <<>>
    /\ lastEsc.bg = "ESC[49m"
    /\ lastEsc.fg = "ESC[38;5;4m"

\* C2: a pop that directly follows a push on the same channel leaves the stack
\* as the push found it (S) and writes the sequence of the last element of S,
\* or the channel's reset when S is empty.
C2_PushPopRestores ==
    (last.op = "pop" /\ last.afterPush) =>
        /\ Stacks[last.chan] = last.entry
        /\ emitted = <<RestoreEscape(last.chan, last.entry)>>

C2_Witness ==
    /\ last.op = "pop"
    /\ last.afterPush
    /\ last.chan = "fg"
    /\ last.entry = <<ColorRgb(10, 20, 30)>>
    /\ fgStack = last.entry
    /\ emitted = <<"ESC[38;2;10;20;30m">>

\* C3: a color::with::* call whose action returned normally and left the
\* channel's stack as it found it returns with the stack as it was before the
\* call and with the colour that was active before the call displayed again.
C3_WithRestores ==
    (last.op = "with_return" /\ last.bal) =>
        /\ Stacks[last.chan] = last.entry
        /\ Displayed(last.chan) = TopOrDefault(last.entry)

\* C4: when the action of a color::with::* call panics, after the unwinding
\* has left the combinator the stack depth is what it was before the call and
\* the restore sequence has been written.
C4_WithRestoresOnPanic ==
    (last.op = "with_unwind") =>
        /\ Len(Stacks[last.chan]) = Len(last.entry)
        /\ emitted = <<RestoreEscape(last.chan, last.entry)>>

\* C5: with two threads pushing and popping the foreground stack, once every
\* operation has finished the top of the stack is the colour of the last
\* sequence written (the writes are ordered as the stack updates are).
C5_QuiescentTopIsLastWritten ==
    (\A t \in Threads : pc[t] = "idle") =>
        ((lastEsc.fg # "" \/ fgStack # <<>>) => Displayed("fg") = TopOrDefault(fgStack))

\* C6: a pop that finds its stack empty leaves it empty and writes the
\* channel's reset sequence, however many pops came before it.
C6_PopOnEmpty ==
    /\ (last.op = "pop" /\ last.chan \in Channels /\ last.pre = <<>>) =>
        /\ Stacks[last.chan] = <<>>
        /\ emitted = <<SgrReset(last.chan)>>
    /\ (last.op = "pop" /\ last.chan = "all") =>
        /\ Len(emitted) = 2
        /\ last.pre[1] = <<>> => (fgStack = <<>> /\ emitted[1] = "ESC[39m")
        /\ last.pre[2] = <<>> => (bgStack = <<>> /\ emitted[2] = "ESC[49m")

C6_Witness ==
    /\ last.op = "pop"
    /\ last.chan = "bg"
    /\ last.pre = <<>>
    /\ ~last.afterPush
    /\ bgStack = <<>>
    /\ lastEsc.bg = "ESC[49m"
    /\ fgStack # <<>>

(***************************************************************************)
(* line.rs: struct Iter.  Its fields are i64 and its arguments u32, so no  *)
(* field overflows; only the cast of an item to u32 wraps.                 *)
(***************************************************************************)
\* u32::MAX, and the coordinates tried.
U32Max == (2^CoordBits) - 1
Coords == (0..MaxCoord) \cup {U32Max - 1, U32Max}

\* v as u32
AsU32(v) == v % (2^CoordBits)

Iter_new(x1, y1, x2, y2) ==
    LET dx == x2 - x1
        dy == y2 - y1
        sx == IF x2 > x1 THEN 1 ELSE -1
        sy == IF y2 > y1 THEN 1 ELSE -1
        err == (dy * 2) - dx
    IN  IF dx > dy
        THEN [x |-> 0, y |-> 0, x1 |-> x1, y1 |-> y1, dx |-> dx, dy |-> dy, err |-> err,
              xx |-> sx, xy |-> 0, yx |-> 0, yy |-> sy]
        ELSE [x |-> 0, y |-> 0, x1 |-> x1, y1 |-> y1, dx |-> dy, dy |-> dx, err |-> err,
              xx |-> 0, xy |-> sy, yx |-> sx, yy |-> 0]

\* Iter::next returns None exactly when self.x > self.dx.
Iter_next_is_none(self) == self.x > self.dx

\* The item of Some((x, y)).
Iter_next_item(self) ==
    << AsU32(self.x1 + self.x * self.xx + self.y * self.yx),
       AsU32(self.y1 + self.x * self.xy + self.y * self.yy) >>

\* Mutant: a step that advances along the dominant axis only.
Iter_next_self_keeps_y(self) == [self EXCEPT !.x = self.x + 1]

\* self after a call that returned Some.
Iter_next_self(self) ==
    LET bump == self.err >= 0
        y1 == IF bump THEN self.y + 1 ELSE self.y
        e1 == IF bump THEN self.err - (self.dx * 2) ELSE self.err
    IN  [self EXCEPT !.y = y1, !.err = e1 + (self.dy * 2), !.x = self.x + 1]

IterInit ==
    /\ ColorInit /\ ThreadInit /\ DrawIdle /\ StyleIdle /\ RawIdle
    /\ iterArgs \in Coords \X Coords \X Coords \X Coords
    /\ it = Iter_new(iterArgs[1], iterArgs[2], iterArgs[3], iterArgs[4])
    /\ pts = <<>>
    /\ nones = 0

IterFrame ==
    UNCHANGED <<fgStack, lastEsc, emitted, colorVars, threadVars, drawVars, styleVars, rawVars,
                iterArgs>>

IterNextSome ==
    /\ ~Iter_next_is_none(it)
    /\ pts' = Append(pts, Iter_next_item(it))
    /\ it' = Iter_next_self(it)
    /\ UNCHANGED nones
    /\ IterFrame

IterNextNone ==
    /\ Iter_next_is_none(it)
    /\ nones < MaxNones
    /\ nones' = nones + 1
    /\ UNCHANGED <<it, pts>>
    /\ IterFrame

NextIter == IterNextSome \/ IterNextNone

SpecIter == IterInit /\ [][NextIter]_vars

(***************************************************************************)
(* Properties of the line iterator.                                        *)
(***************************************************************************)
Abs(v) == IF v < 0 THEN -v ELSE v
MaxOf(a, b) == IF a > b THEN a ELSE b

\* C7: for any two grid points, the items run from the first endpoint to the
\* second: once the iterator has ended, its first item was (x1, y1) and its
\* last item (x2, y2).
C7_IterEndpoints ==
    nones > 0 =>
        /\ pts # <<>>
        /\ pts[1] = <<iterArgs[1], iterArgs[2]>>
        /\ Last(pts) = <<iterArgs[3], iterArgs[4]>>

\* C8: for non-orthogonal endpoints the iterator returns exactly
\* max(|x2-x1|, |y2-y1|) + 1 items and then only None; consecutive items
\* advance by one along the dominant axis and by at most one along the other.
C8_IterLength ==
    LET ax == Abs(iterArgs[3] - iterArgs[1])
        ay == Abs(iterArgs[4] - iterArgs[2])
    IN  (nones > 0 /\ iterArgs[1] # iterArgs[3] /\ iterArgs[2] # iterArgs[4]) =>
            /\ Len(pts) = MaxOf(ax, ay) + 1
            /\ \A i \in 1..(Len(pts) - 1) :
                LET sx == Abs(pts[i + 1][1] - pts[i][1])
                    sy == Abs(pts[i + 1][2] - pts[i][2])
                IN  IF ax >= ay THEN sx = 1 /\ sy <= 1 ELSE sy = 1 /\ sx <= 1

\* C18: the diagonal from (x, y) to (x + d, y + d), d >= 1, yields the points
\* (x + i, y + i) for i = 0..d in that order, d + 1 in all, and then ends.
C18_Diagonal ==
    LET d == iterArgs[3] - iterArgs[1] IN
    (d >= 1 /\ iterArgs[4] - iterArgs[2] = d) =>
        /\ Len(pts) <= d + 1
        /\ \A i \in 1..Len(pts) : pts[i] = <<iterArgs[1] + i - 1, iterArgs[2] + i - 1>>
        /\ nones > 0 => Len(pts) = d + 1

C18_Witness ==
    /\ iterArgs = <<0, 0, 3, 3>>
    /\ nones > 0
    /\ pts = <<<<0, 0>>, <<1, 1>>, <<2, 2>>, <<3, 3>>>>

(***************************************************************************)
(* lib.rs: pixel, orth_line and line.  A drawing d is the record           *)
(* [out, ret]: the pixels written so far and "run" while the call runs,    *)
(* then what it returned, or "panic".  chk says whether the build checks   *)
(* integer overflow (a debug build panics where a release build wraps).    *)
(***************************************************************************)
Chars == {"#"}

NewDrawing == [out |-> <<>>, ret |-> "run"]
Panic(d) == [d EXCEPT !.ret = "panic"]

\* v as i32
AsI32(v) ==
    LET u == AsU32(v) IN IF u >= 2^(CoordBits - 1) THEN u - 2^CoordBits ELSE u

FitsI32(v) == -(2^(CoordBits - 1)) <= v /\ v < 2^(CoordBits - 1)

MinOf(a, b) == IF a < b THEN a ELSE b

pixel(d, chk, c, x, y) ==
    IF d.ret # "run" THEN d
    ELSE IF chk /\ (y + 1 > U32Max \/ x + 1 > U32Max) THEN Panic(d)
    ELSE Emit(d, escape(ToString(AsU32(y + 1)) \o ";" \o ToString(AsU32(x + 1)) \o "H" \o c))

\* The loops of orth_line: while v != max + 1 { pixel(..); v += 1; }
RECURSIVE orth_line_loop(_, _, _, _, _, _, _)
orth_line_loop(d, chk, c, v, hi, fixed, alongX) ==
    IF d.ret # "run" THEN d
    ELSE IF chk /\ hi + 1 > U32Max THEN Panic(d)
    ELSE IF v = AsU32(hi + 1) THEN d
    ELSE LET d1 == IF alongX THEN pixel(d, chk, c, v, fixed) ELSE pixel(d, chk, c, fixed, v)
         IN  IF d1.ret # "run" THEN d1
             ELSE IF chk /\ v + 1 > U32Max THEN Panic(d1)
             ELSE orth_line_loop(d1, chk, c, AsU32(v + 1), hi, fixed, alongX)

NonOrthoErr == "Err(Cannot draw non-ortho lines with orth-line)"

\* Mutant: the orthogonality test made after the first pixel is drawn.
orth_line_checks_late(d, chk, c, x1, y1, x2, y2) ==
    LET d1 == pixel(d, chk, c, MinOf(x1, x2), y1) IN
    IF x1 # x2 /\ y1 # y2 THEN [d1 EXCEPT !.ret = NonOrthoErr]
    ELSE [d1 EXCEPT !.ret = "Ok"]

orth_line(d, chk, c, x1, y1, x2, y2) ==
    IF x1 # x2 /\ y1 # y2 THEN [d EXCEPT !.ret = NonOrthoErr]
    ELSE LET w == IF x1 # x2
                  THEN orth_line_loop(d, chk, c, MinOf(x1, x2), MaxOf(x1, x2), y1, TRUE)
                  ELSE orth_line_loop(d, chk, c, MinOf(y1, y2), MaxOf(y1, y2), x1, FALSE)
         IN  IF w.ret = "run" THEN [w EXCEPT !.ret = "Ok"] ELSE w

\* The loop of line: while x <= dx { pixel(..); if err >= 0 {..} err += ..; x += 1; }
RECURSIVE line_loop(_, _, _, _, _, _)
line_loop(d, chk, c, x1, y1, l) ==
    IF d.ret # "run" THEN d
    ELSE IF ~(l.x <= l.dx) THEN d
    ELSE LET ax == l.x * l.xx
             bx == l.y * l.yx
             px == (AsI32(x1) + ax) + bx
             ay == l.x * l.xy
             by == l.y * l.yy
             py == (AsI32(y1) + ay) + by
             bump == l.err >= 0
             yn == IF bump THEN l.y + 1 ELSE l.y
             e1 == IF bump THEN l.err - AsI32(l.dx * 2) ELSE l.err
             e2 == AsI32(e1) + AsI32(l.dy * 2)
             xn == l.x + 1
             fits == /\ FitsI32(ax) /\ FitsI32(AsI32(x1) + ax) /\ FitsI32(bx) /\ FitsI32(px)
                     /\ FitsI32(ay) /\ FitsI32(AsI32(y1) + ay) /\ FitsI32(by) /\ FitsI32(py)
             d1 == IF chk /\ ~fits THEN Panic(d)
                   ELSE pixel(d, chk, c, AsU32(px), AsU32(py))
         IN  IF d1.ret # "run" THEN d1
             ELSE IF chk /\ ~(FitsI32(yn) /\ FitsI32(e1) /\ FitsI32(e2) /\ FitsI32(xn))
             THEN Panic(d1)
             ELSE line_loop(d1, chk, c, x1, y1,
                            [l EXCEPT !.x = AsI32(xn), !.y = AsI32(yn), !.err = AsI32(e2)])

line(d, chk, c, x1, y1, x2, y2) ==
    IF x1 = x2 \/ y1 = y2 THEN orth_line(d, chk, c, x1, x2, y1, y2)
    ELSE IF chk /\ (x2 < x1 \/ y2 < y1) THEN Panic(d)
    ELSE LET dx0 == AsI32(AsU32(x2 - x1))
             dy0 == AsI32(AsU32(y2 - y1))
             sx == IF AsU32(x2 - x1) > 0 THEN 1 ELSE -1
             sy == IF AsU32(y2 - y1) > 0 THEN 1 ELSE -1
             flat == dx0 > dy0
             dx == IF flat THEN dx0 ELSE dy0
             dy == IF flat THEN dy0 ELSE dx0
             err == AsI32(dy * 2) - dx
             l == [x |-> 0, y |-> 0, dx |-> dx, dy |-> dy, err |-> AsI32(err),
                   xx |-> IF flat THEN sx ELSE 0, xy |-> IF flat THEN 0 ELSE sy,
                   yx |-> IF flat THEN 0 ELSE sx, yy |-> IF flat THEN sy ELSE 0]
         IN  IF chk /\ ~FitsI32(err) THEN Panic(d)
             ELSE LET w == line_loop(d, chk, c, x1, y1, l)
                  IN  IF w.ret = "run" THEN [w EXCEPT !.ret = "Ok"] ELSE w

\* The ? operator: the caller goes on after Ok and returns anything else.
Continue(w) == [w EXCEPT !.ret = "run"]

\* Mutant: a rectangle whose second edge joins the two corners directly.
rect_diagonal_edge(d, chk, c, x1, y1, x2, y2) ==
    LET e1 == orth_line(d, chk, c, x1, y1, x1, y2) IN
    IF e1.ret # "Ok" THEN e1
    ELSE orth_line(Continue(e1), chk, c, x1, y1, x2, y2)

\* lib.rs rect, and rect::line of rect.rs, which has the same body.
rect(d, chk, c, x1, y1, x2, y2) ==
    LET e1 == orth_line(d, chk, c, x1, y1, x1, y2) IN
    IF e1.ret # "Ok" THEN e1
    ELSE LET e2 == orth_line(Continue(e1), chk, c, x1, y1, x2, y1) IN
    IF e2.ret # "Ok" THEN e2
    ELSE LET e3 == orth_line(Continue(e2), chk, c, x2, y2, x1, y2) IN
    IF e3.ret # "Ok" THEN e3
    ELSE orth_line(Continue(e3), chk, c, x2, y2, x2, y1)

\* The loop of rect_fill: while y != y2 { orth_line(c, x1, y, x2, y)?; y += 1; }
RECURSIVE rect_fill_loop(_, _, _, _, _, _, _)
rect_fill_loop(d, chk, c, x1, y, x2, y2) ==
    IF y = y2 THEN d
    ELSE LET row == orth_line(d, chk, c, x1, y, x2, y) IN
         IF row.ret # "Ok" THEN row
         ELSE IF chk /\ y + 1 > U32Max THEN Panic(row)
         ELSE rect_fill_loop(Continue(row), chk, c, x1, AsU32(y + 1), x2, y2)

\* Mutant: a fill whose row loop also draws row y2.
rect_fill_inclusive(d, chk, c, x1, y1, x2, y2) ==
    LET w == rect_fill_loop(d, chk, c, x1, y1, x2, y2) IN
    IF w.ret # "run" THEN w ELSE orth_line(w, chk, c, x1, y2, x2, y2)

\* lib.rs rect_fill, and rect::fill of rect.rs, which has the same body.
rect_fill(d, chk, c, x1, y1, x2, y2) ==
    LET w == rect_fill_loop(d, chk, c, x1, y1, x2, y2) IN
    IF w.ret = "run" THEN [w EXCEPT !.ret = "Ok"] ELSE w

LineBreak == "\n"

\* The loop of text over the characters s[i..]: nx and y are its variables.
RECURSIVE text_loop(_, _, _, _, _, _, _)
text_loop(d, chk, s, i, x, nx, y) ==
    IF d.ret # "run" \/ i > Len(s) THEN d
    ELSE LET c == s[i]
             brk == c = LineBreak
             nx1 == IF brk THEN x ELSE nx
             y1 == IF brk THEN y + 1 ELSE y
         IN  IF chk /\ y1 > U32Max THEN Panic(d)
             ELSE LET d1 == pixel(d, chk, c, nx1, AsU32(y1)) IN
                  IF d1.ret # "run" THEN d1
                  ELSE IF chk /\ nx1 + 1 > U32Max THEN Panic(d1)
                  ELSE text_loop(d1, chk, s, i + 1, x, AsU32(nx1 + 1), AsU32(y1))

\* text returns (); "Ok" stands for a return without a panic.
text(d, chk, s, x, y) ==
    LET w == text_loop(d, chk, s, 1, x, x, y) IN
    IF w.ret = "run" THEN [w EXCEPT !.ret = "Ok"] ELSE w

(***************************************************************************)
(* One call of a drawing function, on an output of its own.                *)
(***************************************************************************)
DrawInit == ColorInit /\ ThreadInit /\ IterIdle /\ DrawIdle /\ StyleIdle /\ RawIdle

DrawFrame ==
    UNCHANGED <<fgStack, lastEsc, emitted, colorVars, threadVars, iterVars, styleVars, rawVars>>

CallRecord(fn, chk, c, a) ==
    [fn |-> fn, chk |-> chk, c |-> c, x1 |-> a[1], y1 |-> a[2], x2 |-> a[3], y2 |-> a[4]]

CallOrthLine ==
    /\ call = <<>>
    /\ \E a \in Coords \X Coords \X Coords \X Coords, chk \in BOOLEAN, c \in Chars :
          LET d == orth_line(NewDrawing, chk, c, a[1], a[2], a[3], a[4])
          IN  /\ call' = CallRecord("orth_line", chk, c, a)
              /\ drawn' = d.out
              /\ ret' = d.ret
    /\ DrawFrame

CallLine ==
    /\ call = <<>>
    /\ \E a \in Coords \X Coords \X Coords \X Coords, chk \in BOOLEAN, c \in Chars :
          LET d == line(NewDrawing, chk, c, a[1], a[2], a[3], a[4])
          IN  /\ call' = CallRecord("line", chk, c, a)
              /\ drawn' = d.out
              /\ ret' = d.ret
    /\ DrawFrame

CallRect ==
    /\ call = <<>>
    /\ \E a \in Coords \X Coords \X Coords \X Coords, chk \in BOOLEAN, c \in Chars :
          LET d == rect(NewDrawing, chk, c, a[1], a[2], a[3], a[4])
          IN  /\ call' = CallRecord("rect", chk, c, a)
              /\ drawn' = d.out
              /\ ret' = d.ret
    /\ DrawFrame

\* The columns given to rect_fill; its rows are drawn from Coords.
FillCols == {0, 1, U32Max}

CallRectFill ==
    /\ call = <<>>
    /\ \E a \in FillCols \X Coords \X FillCols \X Coords, chk \in BOOLEAN, c \in Chars :
          LET d == rect_fill(NewDrawing, chk, c, a[1], a[2], a[3], a[4])
          IN  /\ call' = CallRecord("rect_fill", chk, c, a)
              /\ drawn' = d.out
              /\ ret' = d.ret
    /\ DrawFrame

\* The strings given to text: up to MaxTextLen characters and line breaks.
Texts == UNION {[1..n -> Chars \cup {LineBreak}] : n \in 0..MaxTextLen}

CallText ==
    /\ call = <<>>
    /\ \E s \in Texts, x \in Coords, y \in Coords, chk \in BOOLEAN :
          LET d == text(NewDrawing, chk, s, x, y)
          IN  /\ call' = [fn |-> "text", chk |-> chk, s |-> s, x |-> x, y |-> y]
              /\ drawn' = d.out
              /\ ret' = d.ret
    /\ DrawFrame

NextDraw == CallOrthLine \/ CallLine \/ CallRect \/ CallRectFill \/ CallText

SpecDraw == DrawInit /\ [][NextDraw]_vars

(***************************************************************************)
(* Properties of the drawing functions.                                    *)
(***************************************************************************)
Orthogonal(k) == k.x1 = k.x2 \/ k.y1 = k.y2

\* C9: for endpoints with x1 = x2 or y1 = y2, line succeeds and writes exactly
\* what orth_line writes for the same arguments, in the same order.
C9_LineEqualsOrthLine ==
    (call # <<>> /\ call.fn = "line" /\ Orthogonal(call)) =>
        /\ ret = "Ok"
        /\ drawn = orth_line(NewDrawing, call.chk, call.c,
                             call.x1, call.y1, call.x2, call.y2).out

\* C10: orth_line given endpoints with x1 # x2 and y1 # y2 returns the
\* orthogonality error as a value, without a panic, and writes no pixel.
C10_OrthLineRejectsEagerly ==
    (call # <<>> /\ call.fn = "orth_line" /\ ~Orthogonal(call)) =>
        /\ ret = NonOrthoErr
        /\ drawn = <<>>

C10_Witness ==
    /\ call # <<>>
    /\ call.fn = "orth_line"
    /\ call.x1 = 0 /\ call.y1 = 0 /\ call.x2 = 3 /\ call.y2 = 2
    /\ ret = NonOrthoErr
    /\ drawn = <<>>

(***************************************************************************)
(* What a terminal shows: pixel addresses the cell (x, y) as row y + 1,    *)
(* column x + 1.                                                           *)
(***************************************************************************)
PixelAt(c, x, y) == "ESC[" \o ToString(y + 1) \o ";" \o ToString(x + 1) \o "H" \o c

\* The cells of row y from the smaller to the larger of xa, xb, and of
\* column x from the smaller to the larger of ya, yb, in ascending order.
HSpan(c, xa, xb, y) ==
    [i \in 1..(MaxOf(xa, xb) - MinOf(xa, xb) + 1) |-> PixelAt(c, MinOf(xa, xb) + i - 1, y)]
VSpan(c, x, ya, yb) ==
    [i \in 1..(MaxOf(ya, yb) - MinOf(ya, yb) + 1) |-> PixelAt(c, x, MinOf(ya, yb) + i - 1)]

\* The rows ya, ya + 1, .., yb - 1, each the span of the columns xa..xb.
FillRows(c, xa, xb, ya, yb) ==
    LET w == MaxOf(xa, xb) - MinOf(xa, xb) + 1 IN
    [i \in 1..(w * (yb - ya)) |->
        PixelAt(c, MinOf(xa, xb) + ((i - 1) % w), ya + ((i - 1) \div w))]

BelowMax(k) == k.x1 < U32Max /\ k.y1 < U32Max /\ k.x2 < U32Max /\ k.y2 < U32Max

C17_OrthLineSpan ==
    (call # <<>> /\ call.fn = "orth_line" /\ Orthogonal(call)) =>
        /\ ret = "Ok"
        /\ drawn = IF call.x1 # call.x2
                   THEN HSpan(call.c, call.x1, call.x2, call.y1)
                   ELSE VSpan(call.c, call.x1, call.y1, call.y2)

\* The k-th visible character of s and where the layout of C19 puts it.
Visible(s) == {i \in 1..Len(s) : s[i] # LineBreak}
BreaksBefore(s, i) == {j \in 1..(i - 1) : s[j] = LineBreak}
LineOf(s, i) == Cardinality(BreaksBefore(s, i))
ColumnOf(s, i) ==
    LET b == BreaksBefore(s, i) IN
    IF b = {} THEN i - 1 ELSE i - 1 - (CHOOSE j \in b : \A k \in b : k <= j)
TextCells(s, x, y) ==
    [k \in 1..Cardinality(Visible(s)) |->
        LET i == CHOOSE i \in Visible(s) : Cardinality({j \in Visible(s) : j <= i}) = k
        IN  PixelAt(s[i], x + ColumnOf(s, i), y + LineOf(s, i))]

\* C19: text draws the k-th character of the n-th line at column x + k of row
\* y + n; a line break is not drawn and the character after it is at column x.
C19_TextLayout ==
    (call # <<>> /\ call.fn = "text" /\ call.x <= MaxCoord /\ call.y <= MaxCoord) =>
        drawn = TextCells(call.s, call.x, call.y)

\* The pixels of the rows ylo..yhi, whatever their column.
RowCells(c, ylo, yhi) ==
    {"ESC[" \o ToString(y + 1) \o ";" \o ToString(col) \o "H" \o c :
        y \in ylo..yhi, col \in 0..(U32Max + 1)}

\* C20: for every input, y1 > y2 included, rect_fill draws at most |y2 - y1|
\* rows, all of them between min(y1, y2) and max(y1, y2).
C20_FillStaysInRange ==
    (call # <<>> /\ call.fn = "rect_fill") =>
        /\ Len(drawn) <= Abs(call.y2 - call.y1) * (Abs(call.x2 - call.x1) + 1)
        /\ \A i \in 1..Len(drawn) :
              drawn[i] \in RowCells(call.c, MinOf(call.y1, call.y2), MaxOf(call.y1, call.y2))

(***************************************************************************)
(* Properties of the style functions and of guard::Reset.                  *)
(***************************************************************************)
Written(esc) == \E i \in 1..Len(emitted) : emitted[i] = esc

\* C12: style::de::all() writes the weight reset 22m as well as 23m, 24m and
\* 29m, so that after it no style attribute is on.
C12_DeAllDisablesAll ==
    (styleLast.op = "de" /\ styleLast.attr = "all") =>
        /\ Written("ESC[22m") /\ Written("ESC[23m")
        /\ Written("ESC[24m") /\ Written("ESC[29m")
        /\ styles = {}

\* C13: after a guard::Reset is dropped both channels display the terminal
\* default, whatever the stacks held.
C13_ResetDropClearsColours ==
    last.op = "reset_drop" =>
        /\ Displayed("fg") = Default
        /\ Displayed("bg") = Default

\* C14: the exit of style::with::bold and of style::with::faint writes the
\* shared reset 22m, after which neither bold nor faint is on.
C14_WeightExitClearsBoth ==
    (styleLast.op = "with_return" /\ styleLast.attr \in Weight) =>
        /\ emitted = <<"ESC[22m">>
        /\ styles \cap Weight = {}

C14_Witness ==
    /\ styleLast.op = "with_return"
    /\ styleLast.attr = "faint"
    /\ styleLast.weight = {"bold", "faint"}
    /\ styleScopes = <<>>
    /\ styles \cap Weight = {}

\* The attributes a scope of style switches off on exit.
Group(style) == IF style \in Weight THEN Weight ELSE {style}

\* C15: when a style::with scope nested in a scope of the same attribute
\* exits, the attribute is off; an attribute that is off comes on only by a
\* call that enables it, never by an exit, so it stays off for the rest of
\* the outer action; entering or leaving a scope changes no attribute
\* outside the scope's own (bold and faint counting as one).
C15_StyleDoesNotStack ==
    /\ []((styleLast.op = "with_return"
            /\ \E i \in 1..Len(styleScopes) : styleScopes[i] = styleLast.attr)
          => styleLast.attr \notin styles)
    /\ [][\A a \in Attrs :
            (a \notin styles /\ a \in styles') =>
                (styleLast'.op \in {"on", "with_call"} /\ styleLast'.attr = a)]_vars
    /\ [][styleLast'.op \in {"with_call", "with_return"} =>
            styles' \ Group(styleLast'.attr) = styles \ Group(styleLast'.attr)]_vars

C15_Witness ==
    /\ styleLast.op = "with_return"
    /\ styleLast.attr = "italic"
    /\ styleScopes = <<"italic">>
    /\ styles = {"underline"}

(***************************************************************************)
(* term.rs: RawModeGuard.  The guard is a unit struct: it holds no count   *)
(* of the guards alive.  crossterm's enable_raw_mode and disable_raw_mode  *)
(* switch the terminal's mode whatever it was.                             *)
(***************************************************************************)
\* term::enable_raw_mode and term::disable_raw_mode: the mode after the call.
enable_raw_mode(mode) == TRUE
disable_raw_mode(mode) == FALSE

\* RawModeGuard::enter: enable_raw_mode(); Self
RawModeGuard_enter(mode) == enable_raw_mode(mode)

\* #[derive(Clone)] on a unit struct: the clone touches nothing.
RawModeGuard_clone(mode) == mode

\* Drop for RawModeGuard: disable_raw_mode()
RawModeGuard_drop(mode) == disable_raw_mode(mode)

RawFrame ==
    UNCHANGED <<fgStack, lastEsc, emitted, colorVars, threadVars, iterVars, drawVars, styleVars>>

Alive == {i \in 1..Len(guards) : guards[i].alive}

GuardEnter ==
    /\ Len(guards) < MaxGuards
    /\ rawMode' = RawModeGuard_enter(rawMode)
    /\ guards' = Append(guards, [from |-> "enter", alive |-> TRUE])
    /\ RawFrame

\* A guard that is alive is cloned.
GuardClone ==
    /\ Len(guards) < MaxGuards
    /\ Alive # {}
    /\ rawMode' = RawModeGuard_clone(rawMode)
    /\ guards' = Append(guards, [from |-> "clone", alive |-> TRUE])
    /\ RawFrame

\* A guard that is alive is dropped.
GuardDrop ==
    \E i \in Alive :
        /\ rawMode' = RawModeGuard_drop(rawMode)
        /\ guards' = [guards EXCEPT ![i].alive = FALSE]
        /\ RawFrame

NextRaw == GuardEnter \/ GuardClone \/ GuardDrop

SpecRaw == Init /\ [][NextRaw]_vars

\* C21: raw mode is on exactly while a guard obtained from enter(), or a
\* clone of one, is alive, for any order of enter, clone and drop.
C21_RawModeWhileGuarded ==
    guards # <<>> => (rawMode <=> Alive # {})

====
